---- MODULE Spec2Model ----
(***************************************************************************)
(* Model of the emotion-aware music recommender backend:                   *)
(*   backend/emotion_classifier.py  EmotionClassifier                      *)
(*   backend/music_recommender.py   MusicRecommender                       *)
(*   backend/app.py                 the Flask routes                       *)
(*                                                                         *)
(* Python strings are sequences of one-character strings, so that          *)
(* str.lower() and the `in` substring test are computed, not assumed.      *)
(* Floating point features are scaled to integers: zcr and energy in       *)
(* thousandths, tempo in BPM, spectral_centroid in Hz.                     *)
(***************************************************************************)
EXTENDS Integers, Sequences, FiniteSets, TLC

VARIABLES
    features, fphase, fresult,
    tinput, tphase, tresult,
    spotify_client_id, spotify_client_secret, spotify_token,
    rpc, raw_emotion, emotion, mapping, genre_idx, recommendations,
    spotify_results, search_status, searches, token_requests,
    calls, response,
    temp_file, upload, vpc, vloaded, vemotion, vexists, vraised, vresponse

fvars == <<features, fphase, fresult>>
tvars == <<tinput, tphase, tresult>>
credvars == <<spotify_client_id, spotify_client_secret>>
rvars ==
    <<spotify_client_id, spotify_client_secret, spotify_token,
      rpc, raw_emotion, emotion, mapping, genre_idx, recommendations,
      spotify_results, search_status, searches, token_requests,
      calls, response>>
vvars ==
    <<temp_file, upload, vpc, vloaded, vemotion, vexists, vraised, vresponse>>
vars == <<fvars, tvars, rvars, vvars>>

(***************************************************************************)
(* Python values that are not strings: None, a missing dictionary key and  *)
(* truthy JSON value of another type.  Each is a one-element sequence holding a *)
(* word, which no sequence of single characters equals.                    *)
(***************************************************************************)
None == <<"None">>
Absent == <<"Absent">>
NotAString == <<"NotAString">>

(***************************************************************************)
(* The six labels, as Python strings.                                      *)
(***************************************************************************)
happy == <<"h","a","p","p","y">>
sad == <<"s","a","d">>
energetic == <<"e","n","e","r","g","e","t","i","c">>
calm == <<"c","a","l","m">>
stressed == <<"s","t","r","e","s","s","e","d">>
neutral == <<"n","e","u","t","r","a","l">>

emotions == <<happy, sad, energetic, calm, stressed, neutral>>

Range(s) == {s[i] : i \in DOMAIN s}

(***************************************************************************)
(* str.lower() on the ASCII letters, character by character.               *)
(***************************************************************************)
UpperCase ==
    <<"A","B","C","D","E","F","G","H","I","J","K","L","M",
      "N","O","P","Q","R","S","T","U","V","W","X","Y","Z">>

LowerCase ==
    <<"a","b","c","d","e","f","g","h","i","j","k","l","m",
      "n","o","p","q","r","s","t","u","v","w","x","y","z">>

LowerChar(c) ==
    IF \E i \in DOMAIN UpperCase : UpperCase[i] = c
    THEN LowerCase[CHOOSE i \in DOMAIN UpperCase : UpperCase[i] = c]
    ELSE c

lower(s) == [i \in DOMAIN s |-> LowerChar(s[i])]

(***************************************************************************)
(* Python's `k in s` for strings: k occurs as a contiguous substring of s. *)
(***************************************************************************)
In(k, s) ==
    \E i \in 1..(Len(s) - Len(k) + 1) : SubSeq(s, i, i + Len(k) - 1) = k

IsStr(v) == v \notin {None, Absent, NotAString}

(***************************************************************************)
(* Python truthiness of a request value: None and '' are falsy.            *)
(***************************************************************************)
Truthy(v) == v # None /\ v # Absent /\ v # <<>>

(***************************************************************************)
(* EmotionClassifier.classify                                              *)
(***************************************************************************)
classify_KeywordOrderSwapped(input_data) ==
    IF IsStr(input_data)
    THEN LET input_lower == lower(input_data) IN
         IF In(<<"s","t","r","e","s","s">>, input_lower)
               \/ In(<<"a","n","x","i","o","u","s">>, input_lower)
         THEN stressed
         ELSE IF In(<<"h","a","p","p","y">>, input_lower)
               \/ In(<<"j","o","y">>, input_lower)
         THEN happy
         ELSE IF In(<<"s","a","d">>, input_lower)
               \/ In(<<"d","e","p","r","e","s","s">>, input_lower)
         THEN sad
         ELSE IF In(<<"e","n","e","r","g","e","t","i","c">>, input_lower)
               \/ In(<<"e","x","c","i","t","e">>, input_lower)
         THEN energetic
         ELSE IF In(<<"c","a","l","m">>, input_lower)
               \/ In(<<"p","e","a","c","e">>, input_lower)
         THEN calm
         ELSE neutral
    ELSE neutral

classify(input_data) ==
    IF IsStr(input_data)
    THEN LET input_lower == lower(input_data) IN
         IF In(<<"h","a","p","p","y">>, input_lower)
               \/ In(<<"j","o","y">>, input_lower)
         THEN happy
         ELSE IF In(<<"s","a","d">>, input_lower)
               \/ In(<<"d","e","p","r","e","s","s">>, input_lower)
         THEN sad
         ELSE IF In(<<"e","n","e","r","g","e","t","i","c">>, input_lower)
               \/ In(<<"e","x","c","i","t","e">>, input_lower)
         THEN energetic
         ELSE IF In(<<"c","a","l","m">>, input_lower)
               \/ In(<<"p","e","a","c","e">>, input_lower)
         THEN calm
         ELSE IF In(<<"s","t","r","e","s","s">>, input_lower)
               \/ In(<<"a","n","x","i","o","u","s">>, input_lower)
         THEN stressed
         ELSE neutral
    ELSE neutral

(***************************************************************************)
(* dict.get(key, default)                                                  *)
(***************************************************************************)
Get(d, key, default) == IF key \in DOMAIN d THEN d[key] ELSE default

(***************************************************************************)
(* EmotionClassifier.classify_from_features                                *)
(***************************************************************************)
classify_from_features_NonStrict(f) ==
    LET zcr == Get(f, "zcr", 0)
        energy == Get(f, "energy", 0)
        tempo == Get(f, "tempo", 120)
        spectral_centroid == Get(f, "spectral_centroid", 2000)
    IN  IF energy >= 100 /\ tempo >= 140 THEN energetic
        ELSE IF energy < 50 /\ tempo < 80
             THEN (IF spectral_centroid < 1500 THEN sad ELSE calm)
        ELSE IF zcr > 100 /\ energy > 80 THEN happy
        ELSE IF spectral_centroid < 1000 THEN stressed
        ELSE neutral

classify_from_features(f) ==
    LET zcr == Get(f, "zcr", 0)
        energy == Get(f, "energy", 0)
        tempo == Get(f, "tempo", 120)
        spectral_centroid == Get(f, "spectral_centroid", 2000)
    IN  IF energy > 100 /\ tempo > 140 THEN energetic
        ELSE IF energy < 50 /\ tempo < 80
             THEN (IF spectral_centroid < 1500 THEN sad ELSE calm)
        ELSE IF zcr > 100 /\ energy > 80 THEN happy
        ELSE IF spectral_centroid < 1000 THEN stressed
        ELSE neutral

(***************************************************************************)
(* Feature vectors: any subset of the four keys the classifier reads,      *)
(* with values at, just below and just above each threshold.               *)
(***************************************************************************)
FeatureKeys == {"zcr", "energy", "tempo", "spectral_centroid"}

FeatureValues ==
    [zcr |-> {0, 100, 110},
     energy |-> {0, 40, 50, 80, 90, 100, 110},
     tempo |-> {70, 80, 120, 140, 141},
     spectral_centroid |-> {900, 1000, 1400, 1500, 1600, 2000}]

FullVectors ==
    [zcr : FeatureValues.zcr, energy : FeatureValues.energy,
     tempo : FeatureValues.tempo,
     spectral_centroid : FeatureValues.spectral_centroid]

FeatureVectors ==
    {[k \in K |-> full[k]] : full \in FullVectors, K \in SUBSET FeatureKeys}

(***************************************************************************)
(* Hint strings: concatenations of at most MaxFragments fragments.  The    *)
(* fragments hold every keyword, mixed-case spellings, the canonical       *)
(* labels, near misses and pieces that form a keyword only when joined.    *)
(***************************************************************************)
MaxFragments == 2

Fragments ==
    {<<"h","a","p","p","y">>, <<"H","a","p","p","y">>, <<"J","O","Y">>,
     <<"s","a","d">>, <<"S","A","D">>, <<"d","e","p","r","e","s","s">>,
     <<"e","n","e","r","g","e","t","i","c">>, <<"E","x","c","i","t","e">>,
     <<"c","a","l","m">>, <<"C","a","l","m">>, <<"p","e","a","c","e">>,
     <<"s","t","r","e","s","s">>, <<"S","t","r","e","s","s","e","d">>,
     <<"a","n","x","i","o","u","s">>,
     <<"n","e","u","t","r","a","l">>, <<"N","E","U","T","R","A","L">>,
     <<"b","a","n","a","n","a">>, <<"h","a","p","p">>, <<"s">>, <<"a","d">>,
     <<" ">>}

RECURSIVE Concats(_)
Concats(n) ==
    IF n = 0 THEN {<<>>}
    ELSE LET shorter == Concats(n - 1)
         IN  shorter \cup {s \o g : s \in shorter, g \in Fragments}

Hints == Concats(MaxFragments)

(***************************************************************************)
(* process_emotion route of app.py: the 'emotion' field of the JSON body   *)
(* is absent, null, a non-string value or a string.                        *)
(***************************************************************************)
valid_emotions == <<happy, sad, energetic, calm, stressed, neutral>>

process_emotion_NoClassify(value) ==
    IF value = NotAString
    THEN [status |-> 500, processed_emotion |-> None]
    ELSE LET normalized == IF Truthy(value) THEN lower(value) ELSE neutral
         IN  [status |-> 200, processed_emotion |-> normalized]

process_emotion(value) ==
    IF value = NotAString
    THEN [status |-> 500, processed_emotion |-> None]
    ELSE LET normalized == IF Truthy(value) THEN lower(value) ELSE neutral
         IN  [status |-> 200,
              processed_emotion |->
                  IF normalized \notin Range(valid_emotions)
                  THEN classify(normalized) ELSE normalized]

(***************************************************************************)
(* MusicRecommender.emotion_mapping: the static table, in source order.    *)
(***************************************************************************)
emotion_mapping ==
    <<[key |-> happy, genres |-> <<"pop", "dance", "indie-pop", "happy">>,
       mood |-> "upbeat", energy |-> "high", valence |-> "positive"],
      [key |-> sad, genres |-> <<"indie", "acoustic", "sad", "ballad">>,
       mood |-> "melancholic", energy |-> "low", valence |-> "negative"],
      [key |-> energetic,
       genres |-> <<"rock", "electronic", "hip-hop", "workout">>,
       mood |-> "energetic", energy |-> "very-high", valence |-> "positive"],
      [key |-> calm,
       genres |-> <<"ambient", "classical", "meditation", "chill">>,
       mood |-> "peaceful", energy |-> "low", valence |-> "neutral"],
      [key |-> stressed,
       genres |-> <<"ambient", "nature-sounds", "meditation", "zen">>,
       mood |-> "relaxing", energy |-> "very-low", valence |-> "neutral"],
      [key |-> neutral,
       genres |-> <<"indie", "pop", "chill", "easy-listening">>,
       mood |-> "neutral", energy |-> "medium", valence |-> "neutral"]>>

HasKey(table, k) == \E i \in DOMAIN table : table[i].key = k

Lookup(table, k) == table[CHOOSE i \in DOMAIN table : table[i].key = k]

(***************************************************************************)
(* get_recommendations, lines 132-135: the label is lowercased and, when   *)
(* it is no key of emotion_mapping, replaced by 'neutral'.                 *)
(***************************************************************************)
resolve_emotion_NoLower(e) ==
    IF ~HasKey(emotion_mapping, e) THEN neutral ELSE e

resolve_emotion(e) ==
    LET lowered == lower(e)
    IN  IF ~HasKey(emotion_mapping, lowered) THEN neutral ELSE lowered

(***************************************************************************)
(* get_recommendations, line 142: the genres searched, mapping['genres'][:2]*)
(***************************************************************************)
Take(s, n) == SubSeq(s, 1, IF Len(s) < n THEN Len(s) ELSE n)

search_genres_All(m) == m.genres

search_genres(m) == Take(m.genres, 2)

(***************************************************************************)
(* MusicRecommender.get_fallback_recommendations                           *)
(***************************************************************************)
Playlist(n) ==
    [name |-> n, artist |-> "Various Artists", url |-> "#", type |-> "playlist"]

fallback ==
    <<[key |-> happy,
       list |-> <<Playlist("Happy Hits 2024"), Playlist("Upbeat Pop Mix"),
                  Playlist("Feel Good Music"), Playlist("Dance Party"),
                  Playlist("Sunny Day Vibes")>>],
      [key |-> sad,
       list |-> <<Playlist("Melancholic Melodies"), Playlist("Emotional Ballads"),
                  Playlist("Reflective Tunes"), Playlist("Rainy Day Music"),
                  Playlist("Heartbreak Songs")>>],
      [key |-> energetic,
       list |-> <<Playlist("High Energy Workout"), Playlist("Power Anthems"),
                  Playlist("Energetic Beats"), Playlist("Pump Up Music"),
                  Playlist("Workout Motivation")>>],
      [key |-> calm,
       list |-> <<Playlist("Peaceful Sounds"), Playlist("Meditation Music"),
                  Playlist("Relaxing Vibes"), Playlist("Calm Instrumentals"),
                  Playlist("Zen Garden")>>],
      [key |-> stressed,
       list |-> <<Playlist("Stress Relief"), Playlist("Calming Nature Sounds"),
                  Playlist("Zen Music"), Playlist("Anxiety Relief"),
                  Playlist("Peaceful Meditation")>>],
      [key |-> neutral,
       list |-> <<Playlist("Chill Vibes"), Playlist("Background Music"),
                  Playlist("Easy Listening"), Playlist("Indie Mix"),
                  Playlist("Casual Listening")>>]>>

get_fallback_recommendations(e) ==
    IF HasKey(fallback, e) THEN Lookup(fallback, e).list
    ELSE Lookup(fallback, neutral).list

(***************************************************************************)
(* get_recommendations, lines 148-152: the list handed back.               *)
(***************************************************************************)
returned_recommendations_NoFallback(recs, e) == Take(recs, 10)

returned_recommendations(recs, e) ==
    Take(IF recs = <<>> THEN get_fallback_recommendations(e) ELSE recs, 10)

(***************************************************************************)
(* search_spotify, lines 97-124: the results built from a 200 response     *)
(* holding p playlists and t tracks for the query of one genre (a missing  *)
(* 'playlists' or 'tracks' key reads as none), cut to the limit.           *)
(***************************************************************************)
Item(kind, genre, i) == [type |-> kind, query |-> genre, n |-> i]

search_results(genre, p, t, limit) ==
    Take([i \in 1..p |-> Item("playlist", genre, i)]
           \o [i \in 1..t |-> Item("track", genre, i)], limit)

(***************************************************************************)
(* search_spotify, line 80: a token is requested when none is cached.      *)
(***************************************************************************)
token_missing_Always(token) == TRUE

token_missing(token) == ~Truthy(token)

(***************************************************************************)
(* The recommender's service: MaxCalls recommend-music requests, one after *)
(* the other, on one MusicRecommender.  The remote service answers each    *)
(* request with any status, any token, and up to MaxItems playlists and    *)
(* MaxItems tracks, or the request raises.                                 *)
(***************************************************************************)
MaxCalls == 2
MaxItems == 3

TokenValues == {<<>>, <<"A">>, <<"B">>}

RecommendFields ==
    {Absent, None,
     happy, <<"H","A","P","P","Y">>, <<"S","a","d">>, energetic, calm,
     <<"S","t","r","e","s","s","e","d">>, neutral,
     <<"U","n","k","n","o","w","n">>, <<>>}

(***************************************************************************)
(* The analyze-voice route.  NumRequests requests are served by concurrent *)
(* threads of the one Flask process; each uploads one clip.  All of them   *)
(* save to, load from and remove the one path 'temp_audio.wav'.            *)
(*                                                                         *)
(* A clip is named by what librosa makes of it: "corrupt" cannot be        *)
(* loaded, "degenerate" loads but makes the feature extraction raise, and  *)
(* the others load and yield the features below.  "missing" is a request   *)
(* without an 'audio' part.                                                *)
(***************************************************************************)
NumRequests == 2

Requests == 1..NumRequests

Clips == {"missing", "corrupt", "degenerate", "loud_fast", "quiet_slow", "noisy"}

NoFile == [owner |-> 0, clip |-> "nofile"]

(***************************************************************************)
(* EmotionClassifier.extract_audio_features, on the clips that load.       *)
(***************************************************************************)
extract_audio_features(clip) ==
    CASE clip = "loud_fast" ->
            [zcr |-> 50, energy |-> 200, tempo |-> 160, spectral_centroid |-> 2500]
      [] clip = "quiet_slow" ->
            [zcr |-> 20, energy |-> 10, tempo |-> 60, spectral_centroid |-> 1200]
      [] clip = "noisy" ->
            [zcr |-> 150, energy |-> 90, tempo |-> 120, spectral_centroid |-> 3000]

(***************************************************************************)
(* EmotionClassifier.analyze_voice on the content found at audio_path:     *)
(* any error of loading, extracting or classifying is caught and the       *)
(* method returns 'neutral'.                                               *)
(***************************************************************************)
LoadFails(content) == content.clip \in {"nofile", "corrupt"}

ExtractFails(content) == content.clip = "degenerate"

analyze_voice_NoCatch(content) ==
    IF LoadFails(content) \/ ExtractFails(content)
    THEN [raised |-> TRUE, emotion |-> None]
    ELSE [raised |-> FALSE,
          emotion |-> classify_from_features(extract_audio_features(content.clip))]

analyze_voice(content) ==
    IF LoadFails(content) \/ ExtractFails(content)
    THEN [raised |-> FALSE, emotion |-> neutral]
    ELSE [raised |-> FALSE,
          emotion |-> classify_from_features(extract_audio_features(content.clip))]

IdleVoice ==
    /\ temp_file = NoFile
    /\ upload = [r \in Requests |-> "missing"]
    /\ vpc = [r \in Requests |-> "done"]
    /\ vloaded = [r \in Requests |-> NoFile]
    /\ vemotion = [r \in Requests |-> None]
    /\ vexists = [r \in Requests |-> FALSE]
    /\ vraised = [r \in Requests |-> "none"]
    /\ vresponse = [r \in Requests |-> [status |-> 0, emotion |-> None]]

(***************************************************************************)
(* No response sent yet; no descriptor looked up yet.                      *)
(***************************************************************************)
NoResponse == [status |-> 0, emotion |-> None, recommendations |-> <<>>]

NoMapping == [key |-> None, genres |-> <<>>]

IdleText ==
    /\ tinput = None
    /\ tphase = "idle"
    /\ tresult = None

IdleFeatures ==
    /\ features = << >>
    /\ fphase = "idle"
    /\ fresult = None

IdleRecommender ==
    /\ spotify_client_id = FALSE
    /\ spotify_client_secret = FALSE
    /\ spotify_token = None
    /\ rpc = "idle"
    /\ raw_emotion = None
    /\ emotion = None
    /\ mapping = NoMapping
    /\ genre_idx = 0
    /\ recommendations = <<>>
    /\ spotify_results = <<>>
    /\ search_status = None
    /\ searches = <<>>
    /\ token_requests = 0
    /\ calls = 0
    /\ response = NoResponse

InitRecommend ==
    /\ spotify_client_id \in BOOLEAN
    /\ spotify_client_secret \in BOOLEAN
    /\ spotify_token = None
    /\ rpc = "idle"
    /\ raw_emotion = None
    /\ emotion = None
    /\ mapping = NoMapping
    /\ genre_idx = 0
    /\ recommendations = <<>>
    /\ spotify_results = <<>>
    /\ search_status = None
    /\ searches = <<>>
    /\ token_requests = 0
    /\ calls = 0
    /\ response = NoResponse
    /\ IdleFeatures
    /\ IdleText
    /\ IdleVoice

(***************************************************************************)
(* recommend_music (app.py) up to the first remote request of              *)
(* get_recommendations, or up to its return when no search is made.        *)
(* A null 'emotion' makes emotion.lower() raise: the route answers 500.    *)
(***************************************************************************)
RecommendMusic ==
    /\ rpc = "idle"
    /\ calls < MaxCalls
    /\ \E f \in RecommendFields :
        LET raw == IF f = Absent THEN neutral ELSE f IN
        /\ raw_emotion' = raw
        /\ calls' = calls + 1
        /\ recommendations' = <<>>
        /\ spotify_results' = <<>>
        /\ search_status' = None
        /\ searches' = <<>>
        /\ token_requests' = 0
        /\ IF ~IsStr(raw)
           THEN /\ response' = [status |-> 500, emotion |-> None, recommendations |-> <<>>]
                /\ rpc' = "idle"
                /\ emotion' = None
                /\ mapping' = NoMapping
                /\ genre_idx' = 0
           ELSE /\ response' = NoResponse
                /\ emotion' = resolve_emotion(raw)
                /\ mapping' = Lookup(emotion_mapping, emotion')
                /\ IF spotify_client_id /\ spotify_client_secret
                   THEN genre_idx' = 1 /\ rpc' = "search"
                   ELSE genre_idx' = 0 /\ rpc' = "return"
    /\ UNCHANGED <<credvars, spotify_token, fvars, tvars, vvars>>

(***************************************************************************)
(* search_spotify, lines 80-95 (with get_spotify_token, lines 55-68): the  *)
(* token request is sent when no token is cached, else the search request. *)
(***************************************************************************)
SearchSpotify ==
    /\ rpc = "search"
    /\ IF token_missing(spotify_token)
       THEN IF ~spotify_client_id \/ ~spotify_client_secret
            THEN /\ spotify_results' = <<>>
                 /\ rpc' = "extend"
                 /\ UNCHANGED <<token_requests, searches>>
            ELSE /\ token_requests' = token_requests + 1
                 /\ rpc' = "token"
                 /\ UNCHANGED <<spotify_results, searches>>
       ELSE /\ searches' = Append(searches, search_genres(mapping)[genre_idx])
            /\ rpc' = "get"
            /\ UNCHANGED <<spotify_results, token_requests>>
    /\ UNCHANGED <<credvars, spotify_token, raw_emotion, emotion, mapping, genre_idx,
                   recommendations, search_status, calls, response,
                   fvars, tvars, vvars>>

(***************************************************************************)
(* get_spotify_token, lines 70-76, and search_spotify, lines 83-95: the    *)
(* answer to the token request.  A 200 answer caches its access_token;     *)
(* with a token the search request is sent, without one the search         *)
(* returns [].                                                             *)
(***************************************************************************)
TokenResponse ==
    /\ rpc = "token"
    /\ \E status \in {200, 401, 0}, t \in TokenValues :
        /\ spotify_token' = IF status = 200 THEN t ELSE spotify_token
        /\ IF ~Truthy(spotify_token')
           THEN /\ spotify_results' = <<>>
                /\ rpc' = "extend"
                /\ UNCHANGED searches
           ELSE /\ searches' = Append(searches, search_genres(mapping)[genre_idx])
                /\ rpc' = "get"
                /\ UNCHANGED spotify_results
    /\ UNCHANGED <<credvars, raw_emotion, emotion, mapping, genre_idx,
                   recommendations, search_status, token_requests, calls,
                   response, fvars, tvars, vvars>>

(***************************************************************************)
(* search_spotify, lines 95-128: the answer to the search request          *)
(* (status 0: the request raised).                                         *)
(***************************************************************************)
SearchResponse ==
    /\ rpc = "get"
    /\ \E status \in {200, 401, 0}, p \in 0..MaxItems, t \in 0..MaxItems :
        /\ search_status' = status
        /\ spotify_results' =
              IF status = 200
              THEN search_results(search_genres(mapping)[genre_idx], p, t, 5)
              ELSE <<>>
    /\ rpc' = "extend"
    /\ UNCHANGED <<credvars, spotify_token, raw_emotion, emotion, mapping, genre_idx,
                   recommendations, searches, token_requests, calls, response,
                   fvars, tvars, vvars>>

(***************************************************************************)
(* get_recommendations, lines 142-146: the results are appended and the    *)
(* loop goes to the next genre, or ends.                                   *)
(***************************************************************************)
ExtendRecommendations ==
    /\ rpc = "extend"
    /\ recommendations' = recommendations \o spotify_results
    /\ IF Len(recommendations') >= 10 \/ genre_idx >= Len(search_genres(mapping))
       THEN rpc' = "return" /\ UNCHANGED genre_idx
       ELSE rpc' = "search" /\ genre_idx' = genre_idx + 1
    /\ UNCHANGED <<credvars, spotify_token, raw_emotion, emotion, mapping,
                   spotify_results, search_status, searches, token_requests,
                   calls, response, fvars, tvars, vvars>>

(***************************************************************************)
(* get_recommendations, lines 148-152, and recommend_music, lines 79-82:   *)
(* the response echoes the request's emotion value.                        *)
(***************************************************************************)
ReturnRecommendations ==
    /\ rpc = "return"
    /\ response' =
          [status |-> 200, emotion |-> raw_emotion,
           recommendations |-> returned_recommendations(recommendations, emotion)]
    /\ rpc' = "idle"
    /\ UNCHANGED <<credvars, spotify_token, raw_emotion, emotion, mapping, genre_idx,
                   recommendations, spotify_results, search_status, searches,
                   token_requests, calls, fvars, tvars, vvars>>

NextRecommend ==
    \/ RecommendMusic
    \/ SearchSpotify
    \/ TokenResponse
    \/ SearchResponse
    \/ ExtendRecommendations
    \/ ReturnRecommendations

SpecRecommend == InitRecommend /\ [][NextRecommend]_vars

(***************************************************************************)
(* Specification of the feature classifier: a feature vector is drawn and  *)
(* classify_from_features is applied to it.                                *)
(***************************************************************************)
InitFeatures ==
    /\ features \in FeatureVectors
    /\ fphase = "input"
    /\ fresult = None
    /\ IdleText
    /\ IdleRecommender
    /\ IdleVoice

ClassifyFromFeatures ==
    /\ fphase = "input"
    /\ fresult' = classify_from_features(features)
    /\ fphase' = "done"
    /\ UNCHANGED <<features, tvars, rvars, vvars>>

NextFeatures == ClassifyFromFeatures

SpecFeatures == InitFeatures /\ [][NextFeatures]_vars

(***************************************************************************)
(* Specification of the text paths: a value is drawn and either classify   *)
(* is called on it or it arrives as the 'emotion' field of process-emotion.*)
(***************************************************************************)
TextInputs == Hints \cup {None, Absent, NotAString}

InitText ==
    /\ tinput \in TextInputs
    /\ tphase = "input"
    /\ tresult = None
    /\ IdleFeatures
    /\ IdleRecommender
    /\ IdleVoice

Classify ==
    /\ tphase = "input"
    /\ tinput # Absent
    /\ tresult' = [status |-> 200, processed_emotion |-> classify(tinput)]
    /\ tphase' = "classified"
    /\ UNCHANGED <<tinput, fvars, rvars, vvars>>

ProcessEmotion ==
    /\ tphase = "input"
    /\ tresult' = process_emotion(tinput)
    /\ tphase' = "processed"
    /\ UNCHANGED <<tinput, fvars, rvars, vvars>>

NextText == Classify \/ ProcessEmotion

SpecText == InitText /\ [][NextText]_vars

(***************************************************************************)
(* Specification of the analyze-voice route under concurrent requests.     *)
(***************************************************************************)
InitVoice ==
    /\ temp_file = NoFile
    /\ upload \in [Requests -> Clips]
    /\ vpc = [r \in Requests |-> "start"]
    /\ vloaded = [r \in Requests |-> NoFile]
    /\ vemotion = [r \in Requests |-> None]
    /\ vexists = [r \in Requests |-> FALSE]
    /\ vraised = [r \in Requests |-> "none"]
    /\ vresponse = [r \in Requests |-> [status |-> 0, emotion |-> None]]
    /\ IdleFeatures
    /\ IdleText
    /\ IdleRecommender

(***************************************************************************)
(* app.py lines 47-54: a request without 'audio' is answered 400; else the *)
(* upload is saved to temp_path, replacing what is there.                  *)
(***************************************************************************)
SaveUpload(r) ==
    /\ vpc[r] = "start"
    /\ IF upload[r] = "missing"
       THEN /\ vresponse' = [vresponse EXCEPT ![r] = [status |-> 400, emotion |-> None]]
            /\ vpc' = [vpc EXCEPT ![r] = "done"]
            /\ UNCHANGED temp_file
       ELSE /\ temp_file' = [owner |-> r, clip |-> upload[r]]
            /\ vpc' = [vpc EXCEPT ![r] = "saved"]
            /\ UNCHANGED vresponse
    /\ UNCHANGED <<upload, vloaded, vemotion, vexists, vraised, fvars, tvars, rvars>>

(***************************************************************************)
(* app.py line 57: emotion_classifier.analyze_voice(temp_path), on what    *)
(* the path holds when it is loaded.  An exception leaving it is answered  *)
(* 500 by the route's handler (line 67).                                   *)
(***************************************************************************)
AnalyzeVoice(r) ==
    /\ vpc[r] = "saved"
    /\ LET result == analyze_voice(temp_file) IN
        /\ vloaded' = [vloaded EXCEPT ![r] = temp_file]
        /\ vemotion' = [vemotion EXCEPT ![r] = result.emotion]
        /\ IF result.raised
           THEN /\ vraised' = [vraised EXCEPT ![r] = "analyze"]
                /\ vresponse' = [vresponse EXCEPT ![r] = [status |-> 500, emotion |-> None]]
                /\ vpc' = [vpc EXCEPT ![r] = "done"]
           ELSE /\ vpc' = [vpc EXCEPT ![r] = "analyzed"]
                /\ UNCHANGED <<vraised, vresponse>>
    /\ UNCHANGED <<temp_file, upload, vexists, fvars, tvars, rvars>>

(***************************************************************************)
(* app.py line 60: os.path.exists(temp_path)                               *)
(***************************************************************************)
CheckExists(r) ==
    /\ vpc[r] = "analyzed"
    /\ vexists' = [vexists EXCEPT ![r] = (temp_file # NoFile)]
    /\ vpc' = [vpc EXCEPT ![r] = "checked"]
    /\ UNCHANGED <<temp_file, upload, vloaded, vemotion, vraised, vresponse,
                   fvars, tvars, rvars>>

(***************************************************************************)
(* app.py lines 61-68: os.remove(temp_path) when the path was seen to      *)
(* exist, which raises when it is gone by now; then the response.          *)
(***************************************************************************)
RemoveAndRespond(r) ==
    /\ vpc[r] = "checked"
    /\ IF vexists[r] /\ temp_file = NoFile
       THEN /\ vraised' = [vraised EXCEPT ![r] = "remove"]
            /\ vresponse' = [vresponse EXCEPT ![r] = [status |-> 500, emotion |-> None]]
            /\ UNCHANGED temp_file
       ELSE /\ temp_file' = IF vexists[r] THEN NoFile ELSE temp_file
            /\ vresponse' = [vresponse EXCEPT ![r] =
                                [status |-> 200, emotion |-> vemotion[r]]]
            /\ UNCHANGED vraised
    /\ vpc' = [vpc EXCEPT ![r] = "done"]
    /\ UNCHANGED <<upload, vloaded, vemotion, vexists, fvars, tvars, rvars>>

NextVoice ==
    \E r \in Requests :
        \/ SaveUpload(r)
        \/ AnalyzeVoice(r)
        \/ CheckExists(r)
        \/ RemoveAndRespond(r)

SpecVoice == InitVoice /\ [][NextVoice]_vars

(***************************************************************************)
(* The ordered decision list of the feature classifier as the list of its  *)
(* (condition, label) pairs, read on the vector with the defaults filled   *)
(* in, and the label of the first pair whose condition holds.              *)
(***************************************************************************)
WithDefaults(f) ==
    [k \in FeatureKeys |->
        IF k \in DOMAIN f THEN f[k]
        ELSE IF k = "tempo" THEN 120
        ELSE IF k = "spectral_centroid" THEN 2000
        ELSE 0]

FeatureRules(v) ==
    <<[holds |-> v.energy > 100 /\ v.tempo > 140, label |-> energetic],
      [holds |-> v.energy < 50 /\ v.tempo < 80,
       label |-> IF v.spectral_centroid < 1500 THEN sad ELSE calm],
      [holds |-> v.zcr > 100 /\ v.energy > 80, label |-> happy],
      [holds |-> v.spectral_centroid < 1000, label |-> stressed],
      [holds |-> TRUE, label |-> neutral]>>

FirstSatisfied(rules) ==
    LET first == CHOOSE i \in DOMAIN rules :
                     rules[i].holds /\ \A j \in 1..(i - 1) : ~rules[j].holds
    IN  rules[first].label

\* C1: classify_from_features returns the label of the first satisfied rule
\* of the ordered list (missing keys read as their defaults); energy = 0.1
\* with tempo = 140 is not energetic, and a vector satisfying both rule 1
\* and rule 3 is energetic.
C1_FirstSatisfiedRule ==
    fphase = "done" =>
        LET v == WithDefaults(features) IN
        /\ fresult = FirstSatisfied(FeatureRules(v))
        /\ (v.energy = 100 /\ v.tempo = 140 => fresult # energetic)
        /\ (v.energy > 100 /\ v.tempo > 140 /\ v.zcr > 100 /\ v.energy > 80
                => fresult = energetic)

\* Witness of C1: the vector {zcr: 0.11, energy: 0.1, tempo: 140}, with no
\* spectral_centroid, sits exactly on the energetic thresholds and has been
\* classified happy by rule 3.
C1_Witness ==
    /\ fphase = "done"
    /\ features = [zcr |-> 110, energy |-> 100, tempo |-> 140]
    /\ fresult = happy

(***************************************************************************)
(* The keyword groups in their fixed order, and the label of the first     *)
(* group with a keyword occurring in the hint, letter case ignored.        *)
(***************************************************************************)
KeywordGroups ==
    <<[label |-> happy, keywords |-> {<<"h","a","p","p","y">>, <<"j","o","y">>}],
      [label |-> sad,
       keywords |-> {<<"s","a","d">>, <<"d","e","p","r","e","s","s">>}],
      [label |-> energetic,
       keywords |-> {<<"e","n","e","r","g","e","t","i","c">>,
                     <<"e","x","c","i","t","e">>}],
      [label |-> calm, keywords |-> {<<"c","a","l","m">>, <<"p","e","a","c","e">>}],
      [label |-> stressed,
       keywords |-> {<<"s","t","r","e","s","s">>,
                     <<"a","n","x","i","o","u","s">>}]>>

SameLetter(a, b) ==
    \/ a = b
    \/ \E i \in DOMAIN UpperCase : {a, b} = {UpperCase[i], LowerCase[i]}

OccursIgnoringCase(kw, hint) ==
    \E i \in 1..Len(hint) :
        /\ i + Len(kw) - 1 <= Len(hint)
        /\ \A j \in 1..Len(kw) : SameLetter(hint[i + j - 1], kw[j])

GroupMatches(g, hint) == \E kw \in g.keywords : OccursIgnoringCase(kw, hint)

FirstGroupLabel(hint) ==
    IF \E i \in DOMAIN KeywordGroups : GroupMatches(KeywordGroups[i], hint)
    THEN LET first == CHOOSE i \in DOMAIN KeywordGroups :
                 /\ GroupMatches(KeywordGroups[i], hint)
                 /\ \A j \in 1..(i - 1) : ~GroupMatches(KeywordGroups[j], hint)
         IN  KeywordGroups[first].label
    ELSE neutral

\* C2: for every hint string, classify returns the label of the first keyword
\* group (happy, sad, energetic, calm, stressed) with a keyword occurring as a
\* case-insensitive substring of the hint, and neutral when no group matches.
C2_FirstKeywordGroup ==
    tphase = "classified" /\ IsStr(tinput) =>
        tresult.processed_emotion = FirstGroupLabel(tinput)

\* Witness of C2: the hint "HappyStressed", which holds keywords of the first
\* and of the last group, has been classified happy.
C2_Witness ==
    /\ tphase = "classified"
    /\ tinput = <<"H","a","p","p","y","S","t","r","e","s","s","e","d">>
    /\ tresult.processed_emotion = happy

FoldsToLabel(s) == \E i \in DOMAIN emotions : lower(s) = emotions[i]

\* C3: for an 'emotion' field that is absent, null, empty or any string,
\* process-emotion answers 200 with one of the six labels: the label itself
\* when the field case-folds to one, neutral when it is absent or empty, and
\* the keyword classification of the text otherwise.
C3_ProcessedEmotionCanonical ==
    tphase = "processed" /\ tinput # NotAString =>
        /\ tresult.status = 200
        /\ tresult.processed_emotion \in Range(emotions)
        /\ (tinput \in {Absent, None, <<>>} =>
                tresult.processed_emotion = neutral)
        /\ (IsStr(tinput) /\ FoldsToLabel(tinput) =>
                tresult.processed_emotion = lower(tinput))
        /\ (IsStr(tinput) /\ tinput # <<>> /\ ~FoldsToLabel(tinput) =>
                tresult.processed_emotion = FirstGroupLabel(tinput))

\* Witness of C3: the field "SAD ", which is no label after case-folding, has
\* been processed as text and answered sad.
C3_Witness ==
    /\ tphase = "processed"
    /\ tinput = <<"S","A","D"," ">>
    /\ tresult = [status |-> 200, processed_emotion |-> sad]

\* C4 (as claimed): the emotion echoed by recommend-music is the resolved
\* label, one of the six canonical labels, the one whose descriptor and
\* fallback list produced the recommendations.
C4_EchoIsResolvedLabel ==
    response.status = 200 =>
        /\ response.emotion \in Range(emotions)
        /\ response.emotion = emotion

\* C5: get_recommendations case-folds the label and looks it up in the
\* six-entry table; a label that is not canonical after case-folding is
\* replaced by neutral, every canonical label has a non-empty genre list,
\* and the lookup never fails.
C5_DescriptorResolved ==
    /\ Len(emotion_mapping) = 6
    /\ \A i \in DOMAIN emotions :
          /\ HasKey(emotion_mapping, emotions[i])
          /\ Len(Lookup(emotion_mapping, emotions[i]).genres) > 0
    /\ (IsStr(raw_emotion) /\ calls > 0 =>
          LET folded == [i \in DOMAIN raw_emotion |->
                            IF \E c \in DOMAIN UpperCase :
                                  UpperCase[c] = raw_emotion[i]
                            THEN LowerCase[CHOOSE c \in DOMAIN UpperCase :
                                              UpperCase[c] = raw_emotion[i]]
                            ELSE raw_emotion[i]]
              label == IF folded \in Range(emotions) THEN folded ELSE neutral
          IN  /\ emotion = label
              /\ mapping.key = label
              /\ mapping \in Range(emotion_mapping)
              /\ Len(mapping.genres) > 0)

\* Witness of C5: the label 'Unknown' has been resolved to the descriptor of
\* neutral and the call has returned.
C5_Witness ==
    /\ raw_emotion = <<"U","n","k","n","o","w","n">>
    /\ mapping = Lookup(emotion_mapping, neutral)
    /\ response.status = 200

\* C6: when the searches of a call yield no result at all, the call returns
\* the fixed 5-item static playlist list of the resolved label; every call
\* returns a non-empty list.
C6_FallbackOnNoResults ==
    response.status = 200 =>
        /\ response.recommendations # <<>>
        /\ (recommendations = <<>> =>
              /\ Len(response.recommendations) = 5
              /\ \E i \in DOMAIN fallback :
                    /\ fallback[i].key = emotion
                    /\ fallback[i].list = response.recommendations
              /\ \A i \in 1..5 :
                    /\ response.recommendations[i].type = "playlist"
                    /\ response.recommendations[i].url = "#")

\* Witness of C6: with both credentials set, the token request of the first
\* search was rejected and the second search came back empty, for the label
\* 'Unknown'; the call returned the neutral fallback list.
C6_Witness ==
    /\ response.status = 200
    /\ spotify_client_id /\ spotify_client_secret
    /\ raw_emotion = <<"U","n","k","n","o","w","n">>
    /\ token_requests = 2
    /\ Len(searches) = 1
    /\ search_status = 200
    /\ recommendations = <<>>
    /\ response.recommendations = Lookup(fallback, neutral).list

\* C7: a call issues at most two searches, each for one of the first two
\* genres of the resolved descriptor, in their order and none twice (a search
\* that gets no token issues no request), and returns at most 10 items.
C7_TwoSearchesTenItems ==
    /\ Len(searches) <= 2
    /\ \/ searches = <<>>
       \/ searches = <<mapping.genres[1]>>
       \/ searches = <<mapping.genres[2]>>
       \/ searches = <<mapping.genres[1], mapping.genres[2]>>
    /\ Len(response.recommendations) <= 10
    /\ Len(recommendations) <= 10

\* Witness of C7: both searches were answered with more playlists and tracks
\* than the limit, and the call returned 10 items.
C7_Witness ==
    /\ response.status = 200
    /\ Len(searches) = 2
    /\ Len(response.recommendations) = 10
    /\ response.recommendations[10].type = "track"

\* C10: a token request is issued only when no token is cached; a cached
\* token is never cleared or replaced; a search rejected with the cached
\* token returns no results without a new token request; with a credential
\* missing no token request and no search request is ever issued.
C10_TokenCachedOnce ==
    /\ [][/\ (token_requests' > token_requests => ~Truthy(spotify_token))
          /\ (Truthy(spotify_token) => spotify_token' = spotify_token)
          /\ (rpc = "get" /\ search_status' # 200 /\ Truthy(spotify_token) =>
                /\ spotify_results' = <<>>
                /\ token_requests' = token_requests
                /\ rpc' # "token")]_vars
    /\ [](~(spotify_client_id /\ spotify_client_secret) =>
             /\ token_requests = 0
             /\ searches = <<>>
             /\ search_status = None
             /\ spotify_token = None)

\* Witness of C10: in a later call, a search made with the token cached by
\* an earlier call was rejected, and the call returned without any token
\* request.
C10_Witness ==
    /\ calls = 2
    /\ response.status = 200
    /\ Truthy(spotify_token)
    /\ token_requests = 0
    /\ Len(searches) = 2
    /\ search_status = 401

DecodeFailed(r) == vloaded[r].clip \in {"nofile", "corrupt", "degenerate"}

Analyzed(r) == vpc[r] \in {"analyzed", "checked"} \/ vresponse[r].status = 200

\* C8: when loading, extracting or classifying raises, analyze_voice returns
\* neutral and does not raise: no analyze-voice request is answered 500
\* because of it, and an emotion that is returned is one of the six labels.
C8_DecodeFailureIsNeutral ==
    \A r \in Requests :
        /\ vraised[r] # "analyze"
        /\ (Analyzed(r) =>
              /\ vemotion[r] \in Range(emotions)
              /\ (DecodeFailed(r) => vemotion[r] = neutral))
        /\ (vresponse[r].status = 200 => vresponse[r].emotion \in Range(emotions))
        /\ (vresponse[r].status = 500 => vraised[r] = "remove")

\* Witness of C8: a request that uploaded a clip librosa cannot load has
\* loaded that clip and has been answered 200 with neutral.
C8_Witness ==
    \E r \in Requests :
        /\ upload[r] = "corrupt"
        /\ vloaded[r] = [owner |-> r, clip |-> "corrupt"]
        /\ vresponse[r] = [status |-> 200, emotion |-> neutral]

AloneEmotion(clip) ==
    IF clip \in {"corrupt", "degenerate"} THEN neutral
    ELSE IF clip = "loud_fast" THEN energetic
    ELSE IF clip = "quiet_slow" THEN sad
    ELSE happy

\* C9 (as claimed): under any interleaving of analyze-voice requests, each
\* request is answered with the emotion of its own upload, loads only the
\* audio it saved itself, and never finds its saved audio removed.
C9_RequestsIndependent ==
    \A r \in Requests :
        /\ (vpc[r] \in {"analyzed", "checked"} \/ (vpc[r] = "done" /\ upload[r] # "missing")
              => vloaded[r] = [owner |-> r, clip |-> upload[r]])
        /\ (vpc[r] = "done" /\ upload[r] # "missing" =>
              vresponse[r] = [status |-> 200, emotion |-> AloneEmotion(upload[r])])

====
